---- MODULE Spec2Model ----
(***************************************************************************)
(* A model of the *arr suite API client (src/src/arr-client.ts and the     *)
(* earlier revision of the same module kept in src/unnamed/part_000).      *)
(*                                                                         *)
(* A client object is built by one of five constructors and then serves    *)
(* public method calls.  Every public method builds an endpoint and an     *)
(* options object and hands them to ArrClient.request, which issues one    *)
(* fetch and then either reads the body as text and throws, or decodes the *)
(* body as JSON and returns it.                                            *)
(*                                                                         *)
(* Strings are sequences of tokens (short literal pieces and single        *)
(* characters), string concatenation is \o.  JavaScript values inside      *)
(* objects are tagged tuples <<typeof, value>>.                            *)
(***************************************************************************)
EXTENDS Integers, Sequences, FiniteSets, TLC

VARIABLES
    source,     \* which revision of the module is built
    input,      \* the class instantiated and the ArrConfig given to its constructor
    client,     \* the client object: serviceName, config, apiVersion
    limit,      \* how many calls the caller keeps in flight at once
    calls       \* per call slot: the state of one public method call

vars == <<source, input, client, limit, calls>>

(***************************** bounds **************************************)
MaxId == 1
MaxStrLen == 1
MaxSlashes == 2

(************************ JavaScript values ********************************)
Undefined == <<"undefined">>
Bool(b) == <<"boolean", b>>
Num(n) == <<"number", n>>
Str(s) == <<"string", s>>
Obj(d) == <<"object", d>>
Arr(a) == <<"array", a>>

None == <<>>
Some(v) == <<v>>

EmptyObject == [k \in {} |-> Undefined]

\* obj.key : undefined when the object has no such property
Get(obj, key) == IF key \in DOMAIN obj THEN obj[key] ELSE Undefined

\* a ?? b
Nullish(a, b) == IF a = Undefined THEN b ELSE a

\* { ...first, ...second } : later properties win
Spread(first, second) == second @@ first

\* JSON.stringify of an object: properties whose value is undefined are left out
JSONstringify(obj) ==
    [text |-> "json",
     doc  |-> [k \in {f \in DOMAIN obj : obj[f] # Undefined} |-> obj[k]]]

(***************************** strings *************************************)
Digit == <<"0", "1", "2", "3", "4", "5", "6", "7", "8", "9">>

RECURSIVE NumStr(_)
\* `${n}` for a non-negative integer
NumStr(n) == IF n < 10 THEN <<Digit[n + 1]>>
             ELSE NumStr(n \div 10) \o <<Digit[(n % 10) + 1]>>

Alphabet == {"a", " ", "&"}

Strings == UNION {[1..n -> Alphabet] : n \in 0..MaxStrLen}

\* encodeURIComponent, character by character
EncodeChar(c) == CASE c = " " -> "%20"
                   [] c = "&" -> "%26"
                   [] OTHER   -> c

encodeURIComponent(s) == [i \in 1..Len(s) |-> EncodeChar(s[i])]

\* the application/x-www-form-urlencoded serializer of URLSearchParams
FormEncodeChar(c) == CASE c = " " -> "+"
                       [] c = "&" -> "%26"
                       [] OTHER   -> c

FormEncode(s) == [i \in 1..Len(s) |-> FormEncodeChar(s[i])]

RECURSIVE URLSearchParamsToString(_)
\* URLSearchParams.toString() of a list of <<name, value>> pairs
URLSearchParamsToString(params) ==
    IF params = <<>> THEN <<>>
    ELSE LET p == params[1]
             rest == SubSeq(params, 2, Len(params))
         IN  <<p[1], "=">> \o FormEncode(p[2])
             \o (IF rest = <<>> THEN <<>> ELSE <<"&">> \o URLSearchParamsToString(rest))

\* a JavaScript string used as a condition
Truthy(s) == s # None /\ s[1] # <<>>

(**************************** construction *********************************)
Services == {"sonarr", "radarr", "lidarr", "readarr", "prowlarr"}

\* url.replace(/\/$/, '')
StripTrailingSlash(url) ==
    IF Len(url) > 0 /\ url[Len(url)] = "/" THEN SubSeq(url, 1, Len(url) - 1) ELSE url

ArrClientConstructor(serviceName, config) ==
    [serviceName |-> serviceName,
     config      |-> [url |-> StripTrailingSlash(config.url), apiKey |-> config.apiKey],
     apiVersion  |-> "v3"]

SonarrClientConstructor(config) == ArrClientConstructor("sonarr", config)

RadarrClientConstructor(config) == ArrClientConstructor("radarr", config)

\* a LidarrClient whose constructor leaves the inherited apiVersion in place
LidarrClientConstructor_v3(config) == ArrClientConstructor("lidarr", config)

LidarrClientConstructor(config) ==
    [ArrClientConstructor("lidarr", config) EXCEPT !.apiVersion = "v1"]

ReadarrClientConstructor(config) ==
    [ArrClientConstructor("readarr", config) EXCEPT !.apiVersion = "v1"]

ProwlarrClientConstructor(config) ==
    [ArrClientConstructor("prowlarr", config) EXCEPT !.apiVersion = "v1"]

New(class, config) ==
    CASE class = "sonarr"   -> SonarrClientConstructor(config)
      [] class = "radarr"   -> RadarrClientConstructor(config)
      [] class = "lidarr"   -> LidarrClientConstructor(config)
      [] class = "readarr"  -> ReadarrClientConstructor(config)
      [] class = "prowlarr" -> ProwlarrClientConstructor(config)

RECURSIVE Slashes(_)
Slashes(n) == IF n = 0 THEN <<>> ELSE <<"/">> \o Slashes(n - 1)

Urls == {<<"http://host:8989">> \o Slashes(n) : n \in 0..MaxSlashes}

ApiKeys == {"key-A", "key-B"}

Configs == [url : Urls, apiKey : ApiKeys]

Sources == {"arr-client.ts", "part_000"}


(************************** ArrClient.request ******************************)
NoOptions == [method |-> None, body |-> None, headers |-> None]

\* a POST whose options leave the body out
Post_DropsBody(body) == [method |-> Some("POST"), body |-> None, headers |-> None]

Post(body) == [method |-> Some("POST"), body |-> body, headers |-> None]

\* the URL request() builds: `${this.config.url}/api/${this.apiVersion}${endpoint}`
RequestUrl(cl, endpoint) == cl.config.url \o <<"/api/", cl.apiVersion>> \o endpoint

\* headers that carry the key on write requests only
RequestHeaders_WritesOnly(cl, options) ==
    IF options.method = None
    THEN "Content-Type" :> "application/json"
    ELSE ("Content-Type" :> "application/json") @@ ("X-Api-Key" :> cl.config.apiKey)

\* the headers request() builds: the two fixed ones, then the caller's
RequestHeaders(cl, options) ==
    Spread(("Content-Type" :> "application/json") @@ ("X-Api-Key" :> cl.config.apiKey),
           IF options.headers = None THEN EmptyObject ELSE options.headers[1])

\* the arguments of fetch(url, { ...options, headers })
FetchArgs(cl, endpoint, options) ==
    [url     |-> RequestUrl(cl, endpoint),
     method  |-> options.method,
     body    |-> options.body,
     headers |-> RequestHeaders(cl, options)]

\* what a public method does with the promise of request()
Returns(endpoint, options) == [endpoint |-> endpoint, options |-> options, result |-> "response"]

Awaits(endpoint, options) == [endpoint |-> endpoint, options |-> options, result |-> "void"]

(************************* responses and errors ****************************)
Statuses == {200, 404, 500}

StatusText(status) == CASE status = 200 -> "OK"
                        [] status = 404 -> "Not Found"
                        [] status = 500 -> "Internal Server Error"

IdOnly == "{\"id\":7}"
Command == "{\"id\":7,\"name\":\"EpisodeSearch\",\"status\":\"queued\"}"
Boom == "boom"

Bodies == {IdOnly, Command, Boom}

Responses == {[status |-> st, statusText |-> StatusText(st), body |-> b] :
                 st \in Statuses, b \in Bodies}

\* response.ok
ResponseOk(r) == r.status >= 200 /\ r.status <= 299

\* response.json(): the decoded document, or None when the body is not JSON
ResponseJson(r) ==
    CASE r.body = IdOnly  -> Some(Obj("id" :> Num(7)))
      [] r.body = Command -> Some(Obj(("id" :> Num(7)) @@ ("name" :> Str("EpisodeSearch"))
                                      @@ ("status" :> Str("queued"))))
      [] OTHER            -> None

\* response.text()
ResponseText(r) == r.body

Returned(value) == [kind |-> "returned", value |-> value, error |-> None]

Threw(error) == [kind |-> "threw", value |-> Undefined, error |-> Some(error)]

\* what fetch rejects with when no response is obtained
TransportError == [name |-> "TypeError", message |-> <<"fetch failed">>]

\* what fetch rejects with when the transport gives up on a signal or a timeout
AbortError == [name |-> "AbortError", message |-> <<"This operation was aborted">>]

TransportErrors == {TransportError, AbortError}

\* what response.json() rejects with
JsonError == [name |-> "SyntaxError", message |-> <<"Unexpected token in JSON">>]

\* an error message that leaves the body text out
ApiError_NoText(cl, r, text) ==
    [name    |-> "Error",
     message |-> <<cl.serviceName, " API error: ">> \o NumStr(r.status) \o <<" ", r.statusText>>]

\* new Error(`${serviceName} API error: ${status} ${statusText} - ${text}`)
ApiError(cl, r, text) ==
    [name    |-> "Error",
     message |-> <<cl.serviceName, " API error: ">> \o NumStr(r.status)
                 \o <<" ", r.statusText, " - ", text>>]


(**************************** public methods *******************************)
\* Each public method is the endpoint and options it hands to request(), and what
\* it does with the promise it gets back.

getStatus == Returns(<<"/system/status">>, NoOptions)

getQueue ==
    Returns(<<"/queue?includeUnknownSeriesItems=true&includeUnknownMovieItems=true">>,
            NoOptions)

\* the body shared by ArrClient.getCalendar and its two overrides
CalendarEndpoint(start, end) ==
    LET params == (IF Truthy(start) THEN <<(<<"start", start[1]>>)>> ELSE <<>>)
                  \o (IF Truthy(end) THEN <<(<<"end", end[1]>>)>> ELSE <<>>)
        str    == URLSearchParamsToString(params)
        query  == IF str # <<>> THEN <<"?">> \o str ELSE <<>>
    IN  <<"/calendar">> \o query

getCalendar(start, end) == Returns(CalendarEndpoint(start, end), NoOptions)

getRootFolders == Returns(<<"/rootfolder">>, NoOptions)

getQualityProfiles == Returns(<<"/qualityprofile">>, NoOptions)

\* try { await this.getStatus(); return true } catch { return false }
testConnection == [getStatus EXCEPT !.result = "boolean"]

\* JSON.stringify({ name, [key]: value })
CommandBody(name, key, value) ==
    Some(JSONstringify(("name" :> Str(name)) @@ (key :> value)))

\* monitored: entity.monitored || true
AddBody_Or(entity, searchKey) ==
    Spread(entity,
           ("monitored" :> (IF Get(entity, "monitored") \in {Undefined, Bool(FALSE)}
                            THEN Bool(TRUE) ELSE Get(entity, "monitored")))
           @@ ("addOptions" :> Obj(searchKey :> Bool(TRUE))))

\* { ...entity, monitored: entity.monitored ?? true, addOptions: { [searchKey]: true } }
AddBody(entity, searchKey) ==
    Spread(entity,
           ("monitored" :> Nullish(Get(entity, "monitored"), Bool(TRUE)))
           @@ ("addOptions" :> Obj(searchKey :> Bool(TRUE))))

(* SonarrClient *)
getSeries == Returns(<<"/series">>, NoOptions)

getSeriesById(id) == Returns(<<"/series/">> \o NumStr(id), NoOptions)

searchSeries(term) ==
    Returns(<<"/series/lookup?term=">> \o encodeURIComponent(term), NoOptions)

\* the caller's object spread after the fixed properties instead of before them
addSeries_CallerLast(series) ==
    Returns(<<"/series">>,
            Post(Some(JSONstringify(
                Spread(("monitored" :> Nullish(Get(series, "monitored"), Bool(TRUE)))
                       @@ ("seasonFolder" :> Nullish(Get(series, "seasonFolder"), Bool(TRUE)))
                       @@ ("addOptions" :> Obj("searchForMissingEpisodes" :> Bool(TRUE))),
                       series)))))

addSeries(series) ==
    Returns(<<"/series">>,
            Post(Some(JSONstringify(
                Spread(series,
                       ("monitored" :> Nullish(Get(series, "monitored"), Bool(TRUE)))
                       @@ ("seasonFolder" :> Nullish(Get(series, "seasonFolder"), Bool(TRUE)))
                       @@ ("addOptions" :> Obj("searchForMissingEpisodes" :> Bool(TRUE))))))))

searchMissing(seriesId) ==
    Returns(<<"/command">>, Post(CommandBody("SeriesSearch", "seriesId", Num(seriesId))))

searchMissing_part000(seriesId) ==
    Awaits(<<"/command">>, Post(CommandBody("SeriesSearch", "seriesId", Num(seriesId))))

getEpisodes(seriesId, seasonNumber) ==
    Returns(<<"/episode?seriesId=">> \o NumStr(seriesId)
            \o (IF seasonNumber # None
                THEN <<"&seasonNumber=">> \o NumStr(seasonNumber[1]) ELSE <<>>),
            NoOptions)

searchEpisode(episodeIds) ==
    Returns(<<"/command">>, Post(CommandBody("EpisodeSearch", "episodeIds", Arr(episodeIds))))

(* RadarrClient *)
getMovies == Returns(<<"/movie">>, NoOptions)

getMovieById(id) == Returns(<<"/movie/">> \o NumStr(id), NoOptions)

searchMovies(term) ==
    Returns(<<"/movie/lookup?term=">> \o encodeURIComponent(term), NoOptions)

addMovie(movie) ==
    Returns(<<"/movie">>, Post(Some(JSONstringify(AddBody(movie, "searchForMovie")))))

searchMovie(movieId) ==
    Returns(<<"/command">>, Post(CommandBody("MoviesSearch", "movieIds", Arr(<<movieId>>))))

searchMovie_part000(movieId) ==
    Awaits(<<"/command">>, Post(CommandBody("MoviesSearch", "movieIds", Arr(<<movieId>>))))

(* LidarrClient *)
getArtists == Returns(<<"/artist">>, NoOptions)

getArtistById(id) == Returns(<<"/artist/">> \o NumStr(id), NoOptions)

searchArtists(term) ==
    Returns(<<"/artist/lookup?term=">> \o encodeURIComponent(term), NoOptions)

addArtist(artist) ==
    Returns(<<"/artist">>, Post(Some(JSONstringify(AddBody(artist, "searchForMissingAlbums")))))

\* artistId ? `/album?artistId=${artistId}` : '/album'
getAlbums(artistId) ==
    Returns(IF artistId # None /\ artistId[1] # 0
            THEN <<"/album?artistId=">> \o NumStr(artistId[1]) ELSE <<"/album">>,
            NoOptions)

getAlbumById(id) == Returns(<<"/album/">> \o NumStr(id), NoOptions)

searchMissingAlbums(artistId) ==
    Returns(<<"/command">>, Post(CommandBody("ArtistSearch", "artistId", Num(artistId))))

searchAlbum(albumId) ==
    Returns(<<"/command">>, Post(CommandBody("AlbumSearch", "albumIds", Arr(<<albumId>>))))

\* an override that appends end before start
LidarrGetCalendar_EndFirst(start, end) ==
    LET params == (IF Truthy(end) THEN <<(<<"end", end[1]>>)>> ELSE <<>>)
                  \o (IF Truthy(start) THEN <<(<<"start", start[1]>>)>> ELSE <<>>)
        str    == URLSearchParamsToString(params)
    IN  Returns(<<"/calendar">> \o (IF str # <<>> THEN <<"?">> \o str ELSE <<>>), NoOptions)

LidarrGetCalendar(start, end) == Returns(CalendarEndpoint(start, end), NoOptions)

(* ReadarrClient *)
getAuthors == Returns(<<"/author">>, NoOptions)

getAuthorById(id) == Returns(<<"/author/">> \o NumStr(id), NoOptions)

searchAuthors(term) ==
    Returns(<<"/author/lookup?term=">> \o encodeURIComponent(term), NoOptions)

addAuthor(author) ==
    Returns(<<"/author">>, Post(Some(JSONstringify(AddBody(author, "searchForMissingBooks")))))

\* authorId ? `/book?authorId=${authorId}` : '/book'
getBooks(authorId) ==
    Returns(IF authorId # None /\ authorId[1] # 0
            THEN <<"/book?authorId=">> \o NumStr(authorId[1]) ELSE <<"/book">>,
            NoOptions)

getBookById(id) == Returns(<<"/book/">> \o NumStr(id), NoOptions)

searchMissingBooks(authorId) ==
    Returns(<<"/command">>, Post(CommandBody("AuthorSearch", "authorId", Num(authorId))))

searchBook(bookIds) ==
    Returns(<<"/command">>, Post(CommandBody("BookSearch", "bookIds", Arr(bookIds))))

ReadarrGetCalendar(start, end) == Returns(CalendarEndpoint(start, end), NoOptions)

(* ProwlarrClient *)
getIndexers == Returns(<<"/indexer">>, NoOptions)

testAllIndexers == Returns(<<"/indexer/testall">>, Post(None))

testAllIndexers_part000 == Awaits(<<"/indexer/testall">>, Post(None))

testIndexer(indexerId) ==
    Returns(<<"/indexer/">> \o NumStr(indexerId) \o <<"/test">>, Post(None))

getIndexerStats == Returns(<<"/indexerstats">>, NoOptions)

\* new URLSearchParams({ query }), then one 'categories' entry per category
search(query, categories) ==
    LET cats == IF categories # None
                THEN [i \in 1..Len(categories[1]) |->
                         <<"categories", NumStr(categories[1][i])>>]
                ELSE <<>>
    IN  Returns(<<"/search?">> \o URLSearchParamsToString(<<(<<"query", query>>)>> \o cats),
                NoOptions)


(****************************** callers ************************************)
Ids == 0..MaxId

IdLists == UNION {[1..n -> Ids] : n \in 0..MaxId}

NoArgs == [id |-> None, seasonNumber |-> None, ids |-> None, start |-> None,
           end |-> None, term |-> None, payload |-> None]

OptField(key, values) == {EmptyObject} \cup {key :> v : v \in values}

\* the objects a caller may hand to an add method: the required properties, and
\* optionally monitored, seasonFolder and an addOptions block of its own
Payloads(foreignKey, searchKey) ==
    {(foreignKey :> Num(1)) @@ ("rootFolderPath" :> Str("/tv"))
       @@ ("qualityProfileId" :> Num(2)) @@ m @@ sf @@ ao :
        m  \in OptField("monitored", {Undefined, Bool(TRUE), Bool(FALSE)}),
        sf \in OptField("seasonFolder", {Bool(TRUE), Bool(FALSE)}),
        ao \in OptField("addOptions", {Obj(searchKey :> Bool(FALSE))})}

OptStrings == {None} \cup {Some(str) : str \in Strings}

A0(name) == {[name |-> name, args |-> NoArgs]}

AId(name) == {[name |-> name, args |-> [NoArgs EXCEPT !.id = Some(i)]] : i \in Ids}

ATerm(name) == {[name |-> name, args |-> [NoArgs EXCEPT !.term = Some(t)]] : t \in Strings}

AIds(name) == {[name |-> name, args |-> [NoArgs EXCEPT !.ids = Some(l)]] : l \in IdLists}

APayload(name, foreignKey, searchKey) ==
    {[name |-> name, args |-> [NoArgs EXCEPT !.payload = Some(p)]] :
        p \in Payloads(foreignKey, searchKey)}

ACalendar ==
    {[name |-> "getCalendar", args |-> [NoArgs EXCEPT !.start = st, !.end = en]] :
        st \in OptStrings, en \in OptStrings}

BaseInvocations ==
    A0("getStatus") \cup A0("getQueue") \cup ACalendar \cup A0("getRootFolders")
    \cup A0("getQualityProfiles") \cup A0("testConnection")

\* the public methods of each class, in each revision, with their arguments
Invocations(class, src) ==
    BaseInvocations \cup
    CASE class = "sonarr" ->
           A0("getSeries") \cup AId("getSeriesById") \cup ATerm("searchSeries")
           \cup APayload("addSeries", "tvdbId", "searchForMissingEpisodes")
           \cup AId("searchMissing")
           \cup (IF src = "part_000" THEN {}
                 ELSE {[name |-> "getEpisodes",
                        args |-> [NoArgs EXCEPT !.id = Some(i), !.seasonNumber = sn]] :
                          i \in Ids, sn \in {None} \cup {Some(n) : n \in Ids}}
                      \cup AIds("searchEpisode"))
      [] class = "radarr" ->
           A0("getMovies") \cup AId("getMovieById") \cup ATerm("searchMovies")
           \cup APayload("addMovie", "tmdbId", "searchForMovie") \cup AId("searchMovie")
      [] class = "lidarr" ->
           A0("getArtists") \cup AId("getArtistById") \cup ATerm("searchArtists")
           \cup APayload("addArtist", "foreignArtistId", "searchForMissingAlbums")
           \cup (IF src = "part_000" THEN {}
                 ELSE A0("getAlbums") \cup AId("getAlbums") \cup AId("getAlbumById")
                      \cup AId("searchMissingAlbums") \cup AId("searchAlbum"))
      [] class = "readarr" ->
           A0("getAuthors") \cup AId("getAuthorById") \cup ATerm("searchAuthors")
           \cup APayload("addAuthor", "foreignAuthorId", "searchForMissingBooks")
           \cup (IF src = "part_000" THEN {}
                 ELSE A0("getBooks") \cup AId("getBooks") \cup AId("getBookById")
                      \cup AId("searchMissingBooks") \cup AIds("searchBook"))
      [] class = "prowlarr" ->
           A0("getIndexers") \cup A0("testAllIndexers")
           \cup {[name |-> "search", args |-> [NoArgs EXCEPT !.term = Some(q), !.ids = c]] :
                   q \in Strings, c \in {None} \cup {Some(l) : l \in IdLists}}
           \cup (IF src = "part_000" THEN {}
                 ELSE AId("testIndexer") \cup A0("getIndexerStats"))

\* method lookup: the class's own method, else the one inherited from ArrClient
Dispatch(class, src, inv) ==
    LET a == inv.args
        n == inv.name
    IN  CASE n = "getStatus"           -> getStatus
          [] n = "getQueue"            -> getQueue
          [] n = "getCalendar"         ->
               IF src = "arr-client.ts" /\ class = "lidarr"
               THEN LidarrGetCalendar(a.start, a.end)
               ELSE IF src = "arr-client.ts" /\ class = "readarr"
               THEN ReadarrGetCalendar(a.start, a.end)
               ELSE getCalendar(a.start, a.end)
          [] n = "getRootFolders"      -> getRootFolders
          [] n = "getQualityProfiles"  -> getQualityProfiles
          [] n = "testConnection"      -> testConnection
          [] n = "getSeries"           -> getSeries
          [] n = "getSeriesById"       -> getSeriesById(a.id[1])
          [] n = "searchSeries"        -> searchSeries(a.term[1])
          [] n = "addSeries"           -> addSeries(a.payload[1])
          [] n = "searchMissing"       ->
               IF src = "part_000" THEN searchMissing_part000(a.id[1])
               ELSE searchMissing(a.id[1])
          [] n = "getEpisodes"         -> getEpisodes(a.id[1], a.seasonNumber)
          [] n = "searchEpisode"       -> searchEpisode(a.ids[1])
          [] n = "getMovies"           -> getMovies
          [] n = "getMovieById"        -> getMovieById(a.id[1])
          [] n = "searchMovies"        -> searchMovies(a.term[1])
          [] n = "addMovie"            -> addMovie(a.payload[1])
          [] n = "searchMovie"         ->
               IF src = "part_000" THEN searchMovie_part000(a.id[1])
               ELSE searchMovie(a.id[1])
          [] n = "getArtists"          -> getArtists
          [] n = "getArtistById"       -> getArtistById(a.id[1])
          [] n = "searchArtists"       -> searchArtists(a.term[1])
          [] n = "addArtist"           -> addArtist(a.payload[1])
          [] n = "getAlbums"           -> getAlbums(a.id)
          [] n = "getAlbumById"        -> getAlbumById(a.id[1])
          [] n = "searchMissingAlbums" -> searchMissingAlbums(a.id[1])
          [] n = "searchAlbum"         -> searchAlbum(a.id[1])
          [] n = "getAuthors"          -> getAuthors
          [] n = "getAuthorById"       -> getAuthorById(a.id[1])
          [] n = "searchAuthors"       -> searchAuthors(a.term[1])
          [] n = "addAuthor"           -> addAuthor(a.payload[1])
          [] n = "getBooks"            -> getBooks(a.id)
          [] n = "getBookById"         -> getBookById(a.id[1])
          [] n = "searchMissingBooks"  -> searchMissingBooks(a.id[1])
          [] n = "searchBook"          -> searchBook(a.ids[1])
          [] n = "getIndexers"         -> getIndexers
          [] n = "testAllIndexers"     ->
               IF src = "part_000" THEN testAllIndexers_part000 ELSE testAllIndexers
          [] n = "testIndexer"         -> testIndexer(a.id[1])
          [] n = "getIndexerStats"     -> getIndexerStats
          [] n = "search"              -> search(a.term[1], a.ids)

(***************************** call state **********************************)
Slots == {1, 2}

Idle == [pc |-> "idle", name |-> "", args |-> NoArgs, result |-> "", endpoint |-> <<>>,
         fetch |-> None, sent |-> 0, rejection |-> None, response |-> None, textRead |-> FALSE,
         jsonRead |-> FALSE, outcome |-> None]

\* a testConnection whose catch covers nothing: the failure reaches the caller
TestConnectionResult_Rethrows(o) ==
    IF o.kind = "returned" THEN Returned(Bool(TRUE)) ELSE o

\* try { await this.getStatus(); return true } catch { return false }
TestConnectionResult(o) ==
    IF o.kind = "returned" THEN Returned(Bool(TRUE)) ELSE Returned(Bool(FALSE))

\* async m(): Promise<void> { await this['request'](...) }
AwaitResult(o) == IF o.kind = "returned" THEN Returned(Undefined) ELSE o

\* the public method's own handling of the settled request() promise
Settle(result, o) ==
    CASE result = "response" -> o
      [] result = "void"     -> AwaitResult(o)
      [] result = "boolean"  -> TestConnectionResult(o)

\* a request() that trims the stored base URL again on every call
RequestThis_Retrim(cl) == [cl EXCEPT !.config.url = StripTrailingSlash(@)]

\* what request() leaves of the client object: it reads this.config,
\* this.apiVersion and this.serviceName and assigns none of them
RequestThis(cl) == cl

\* request() up to its first await: the URL and headers are built and fetch is called
RequestIssue(cl, inv, m) ==
    [Idle EXCEPT !.pc = "awaitFetch", !.name = inv.name, !.args = inv.args,
                 !.result = m.result, !.endpoint = m.endpoint,
                 !.fetch = Some(FetchArgs(cl, m.endpoint, m.options)), !.sent = 1]

\* a request() that calls fetch again when it rejects
RequestOnRejected_Retry(c, e) == [c EXCEPT !.sent = c.sent + 1]

\* a request() that catches the rejection and throws its own service error instead
RequestOnRejected_Wrapped(c, e) ==
    [c EXCEPT !.pc = "done", !.rejection = Some(e),
              !.outcome = Some(Settle(c.result,
                    Threw([name |-> "Error", message |-> <<" API error: ">> \o e.message])))]

\* fetch rejected: request() has no handler, the rejection reaches the method
RequestOnRejected(c, e) ==
    [c EXCEPT !.pc = "done", !.rejection = Some(e),
              !.outcome = Some(Settle(c.result, Threw(e)))]

\* a request() that reads the body as text before it looks at the status
RequestOnResponse_TextFirst(c, r) ==
    IF ~ResponseOk(r)
    THEN [c EXCEPT !.pc = "awaitText", !.response = Some(r), !.textRead = TRUE]
    ELSE [c EXCEPT !.pc = "awaitJson", !.response = Some(r), !.textRead = TRUE,
                   !.jsonRead = TRUE]

\* fetch resolved: if (!response.ok) await response.text() else response.json()
RequestOnResponse(c, r) ==
    IF ~ResponseOk(r)
    THEN [c EXCEPT !.pc = "awaitText", !.response = Some(r), !.textRead = TRUE]
    ELSE [c EXCEPT !.pc = "awaitJson", !.response = Some(r), !.jsonRead = TRUE]

\* throw new Error(...)
RequestThrow(cl, c) ==
    LET r == c.response[1]
    IN  [c EXCEPT !.pc = "done",
                  !.outcome = Some(Settle(c.result, Threw(ApiError(cl, r, ResponseText(r)))))]

\* a request() that copies only id out of the decoded body
RequestResult_IdOnly(r) ==
    LET d == ResponseJson(r)
    IN  IF d = None THEN Threw(JsonError) ELSE Returned(Obj("id" :> d[1][2]["id"]))

\* what the promise returned by `return response.json() as Promise<T>` settles with
RequestResult(r) ==
    LET d == ResponseJson(r)
    IN  IF d = None THEN Threw(JsonError) ELSE Returned(d[1])

\* a request() that keeps the response in a field of the client, shared by all calls
\* in flight, and decodes whichever response the field holds
RequestReturn_SharedResponse(c) ==
    LET held == {t \in Slots : calls[t].response # None}
        last == CHOOSE t \in held : \A u \in held : u <= t
    IN  [c EXCEPT !.pc = "done",
                  !.outcome = Some(Settle(c.result, RequestResult(calls[last].response[1])))]

RequestReturn(c) ==
    [c EXCEPT !.pc = "done", !.outcome = Some(Settle(c.result, RequestResult(c.response[1])))]

InFlight == {s \in Slots : calls[s].pc # "idle"}

FreeSlot == CHOOSE s \in Slots : calls[s].pc = "idle" /\ \A t \in Slots : calls[t].pc = "idle" => s <= t

\* the calls a caller makes: any public call one at a time; the status, queue and
\* connection checks and the class's own argument-free methods when it keeps
\* several in flight
Workload ==
    IF limit = 1 THEN Invocations(input.class, source)
    ELSE {inv \in Invocations(input.class, source) :
             /\ inv.args = NoArgs
             /\ inv.name \notin {"getCalendar", "getRootFolders", "getQualityProfiles"}}

(****************************** actions ************************************)
Invoke ==
    /\ Cardinality(InFlight) < limit
    /\ \E inv \in Workload :
         calls' = [calls EXCEPT ![FreeSlot] =
                      RequestIssue(client, inv, Dispatch(input.class, source, inv))]
    /\ client' = RequestThis(client)
    /\ UNCHANGED <<source, input, limit>>

FetchRejects(s) ==
    /\ calls[s].pc = "awaitFetch"
    /\ \E e \in TransportErrors :
         calls' = [calls EXCEPT ![s] = RequestOnRejected(calls[s], e)]
    /\ UNCHANGED <<source, input, client, limit>>

FetchResolves(s) ==
    /\ calls[s].pc = "awaitFetch"
    /\ \E r \in Responses : calls' = [calls EXCEPT ![s] = RequestOnResponse(calls[s], r)]
    /\ UNCHANGED <<source, input, client, limit>>

TextResolves(s) ==
    /\ calls[s].pc = "awaitText"
    /\ calls' = [calls EXCEPT ![s] = RequestThrow(client, calls[s])]
    /\ UNCHANGED <<source, input, client, limit>>

JsonSettles(s) ==
    /\ calls[s].pc = "awaitJson"
    /\ calls' = [calls EXCEPT ![s] = RequestReturn(calls[s])]
    /\ UNCHANGED <<source, input, client, limit>>

\* the caller takes the settled result; the slot serves its next call
Collect(s) ==
    /\ calls[s].pc = "done"
    /\ calls' = [calls EXCEPT ![s] = Idle]
    /\ UNCHANGED <<source, input, client, limit>>

Constructed(n) ==
    \E src \in Sources, class \in Services, config \in Configs :
       /\ source = src
       /\ input = [class |-> class, config |-> config]
       /\ client = New(class, config)
       /\ limit = n
       /\ calls = [s \in Slots |-> Idle]

Init == Constructed(1)

InitConcurrent == Constructed(Cardinality(Slots))

Next ==
    \/ Invoke
    \/ \E s \in Slots : FetchRejects(s)
    \/ \E s \in Slots : FetchResolves(s)
    \/ \E s \in Slots : TextResolves(s)
    \/ \E s \in Slots : JsonSettles(s)
    \/ \E s \in Slots : Collect(s)

Spec == Init /\ [][Next]_vars

SpecConcurrent == InitConcurrent /\ [][Next]_vars


(******************************* claims ************************************)
Active == {s \in Slots : calls[s].pc # "idle"}

Done == {s \in Slots : calls[s].pc = "done"}

\* sub occurs in msg as a run of consecutive pieces
Contains(msg, sub) ==
    \E i \in 1..(Len(msg) - Len(sub) + 1) : SubSeq(msg, i, i + Len(sub) - 1) = sub

VersionOf(class) == IF class \in {"sonarr", "radarr"} THEN "v3" ELSE "v1"

\* C1: every request URL is the stored (slash-trimmed) base URL, then "/api/", then
\* v3 for Sonarr and Radarr and v1 for Lidarr, Readarr and Prowlarr, then the
\* endpoint the public method asked for.
C1_UrlIsBaseApiVersionEndpoint ==
    \A s \in Active :
        calls[s].fetch[1].url =
              client.config.url \o <<"/api/">> \o <<VersionOf(input.class)>>
              \o calls[s].endpoint

C1_Witness ==
    \E s \in Active :
        /\ input.class = "lidarr"
        /\ calls[s].name = "getArtistById"
        /\ calls[s].fetch[1].url = <<"http://host:8989", "/api/", "v1", "/artist/", "1">>

\* C2: every request issued carries the header X-Api-Key with the API key given to
\* the constructor, reads included.
C2_ApiKeyOnEveryRequest ==
    \A s \in Active :
        /\ "X-Api-Key" \in DOMAIN calls[s].fetch[1].headers
        /\ calls[s].fetch[1].headers["X-Api-Key"] = input.config.apiKey

C2_Witness ==
    \E s \in Active :
        /\ calls[s].name = "getQueue"
        /\ calls[s].fetch[1].method = None
        /\ input.config.apiKey = "key-B"
        /\ calls[s].fetch[1].headers["X-Api-Key"] = "key-B"

NonSuccess(r) == r.status < 200 \/ r.status > 299

\* C3: a public method other than testConnection whose request got a non-success
\* response fails, with an error whose message holds the service name, the status,
\* the status text and the raw body text.
C3_NonSuccessFailsWithApiError ==
    \A s \in Done :
        (calls[s].name # "testConnection" /\ calls[s].response # None
           /\ NonSuccess(calls[s].response[1]))
        => LET r == calls[s].response[1]
               o == calls[s].outcome[1]
           IN  /\ o.kind = "threw"
               /\ o.value = Undefined
               /\ Contains(o.error[1].message, <<input.class>>)
               /\ Contains(o.error[1].message, NumStr(r.status))
               /\ Contains(o.error[1].message, <<r.statusText>>)
               /\ Contains(o.error[1].message, <<r.body>>)

C3_Witness ==
    \E s \in Done :
        /\ calls[s].name = "getQueue"
        /\ calls[s].response # None
        /\ calls[s].response[1].status = 500
        /\ calls[s].response[1].body = Boom
        /\ calls[s].outcome[1].kind = "threw"
        /\ calls[s].outcome[1].error[1].message =
              <<input.class, " API error: ", "5", "0", "0", " ",
                "Internal Server Error", " - ", "boom">>

Decodable(r) == r.body \in {IdOnly, Command}

\* C4: testConnection never fails: it returns true exactly when the status request
\* got a success response whose body decodes as JSON, and false on a transport
\* failure, a non-success status or an undecodable body.
C4_TestConnectionNeverFails ==
    \A s \in Done :
        calls[s].name = "testConnection"
        => LET o  == calls[s].outcome[1]
               ok == /\ calls[s].response # None
                     /\ ~NonSuccess(calls[s].response[1])
                     /\ Decodable(calls[s].response[1])
           IN  /\ o.kind = "returned"
               /\ o.error = None
               /\ o.value = Bool(ok)

C4_Witness ==
    \E s \in Done :
        /\ calls[s].name = "testConnection"
        /\ calls[s].response # None
        /\ calls[s].response[1].status = 200
        /\ calls[s].response[1].body = Boom
        /\ calls[s].outcome[1] = Returned(Bool(FALSE))

\* C5: a call has issued exactly one HTTP request from the moment it starts until
\* the caller has its result, whatever the outcome, and none before it starts.
C5_OneRequestPerCall ==
    \A s \in Slots :
        /\ calls[s].pc = "idle" => calls[s].sent = 0
        /\ calls[s].pc # "idle" => (calls[s].sent = 1 /\ calls[s].fetch # None)

C5_Witness ==
    \E s \in Done :
        /\ calls[s].response = None
        /\ calls[s].outcome[1].kind = "threw"
        /\ calls[s].sent = 1


AddMethods == {"addSeries", "addMovie", "addArtist", "addAuthor"}

Adds == {s \in Active : calls[s].name \in AddMethods}

\* the fields an add method fills in when the caller leaves them out
Defaulted(name) == IF name = "addSeries" THEN {"monitored", "seasonFolder"} ELSE {"monitored"}

SearchKey(name) ==
    CASE name = "addSeries" -> "searchForMissingEpisodes"
      [] name = "addMovie"  -> "searchForMovie"
      [] name = "addArtist" -> "searchForMissingAlbums"
      [] name = "addAuthor" -> "searchForMissingBooks"

\* the JSON document posted by the call in slot s
Posted(s) == calls[s].fetch[1].body[1].doc

Supplied(payload, key) == key \in DOMAIN payload /\ payload[key] # Undefined

DefaultsHold(s) ==
    \A key \in Defaulted(calls[s].name) :
        /\ key \in DOMAIN Posted(s)
        /\ Posted(s)[key] = IF Supplied(calls[s].args.payload[1], key)
                            THEN calls[s].args.payload[1][key] ELSE Bool(TRUE)

Unchanged(s, keys) ==
    \A key \in keys : key \in DOMAIN Posted(s) /\ Posted(s)[key] = calls[s].args.payload[1][key]

\* C6 as amended: in the body of each add method monitored (and seasonFolder for
\* addSeries) is true when the caller does not supply it and the caller's value
\* otherwise, an explicit false included; every other caller-supplied field except
\* addOptions is in the body unchanged.
C6_DefaultsAndPassThrough ==
    \A s \in Adds :
        /\ calls[s].fetch[1].body # None
        /\ DefaultsHold(s)
        /\ Unchanged(s, DOMAIN calls[s].args.payload[1]
                        \ (Defaulted(calls[s].name) \cup {"addOptions"}))

\* C6 as stated: every caller-supplied field other than the defaulted ones is in the
\* body unchanged.
C6_AllOtherFieldsUnchanged ==
    \A s \in Adds :
        /\ DefaultsHold(s)
        /\ Unchanged(s, DOMAIN calls[s].args.payload[1] \ Defaulted(calls[s].name))

C6_Witness ==
    \E s \in Adds :
        /\ calls[s].name = "addMovie"
        /\ Get(calls[s].args.payload[1], "monitored") = Bool(FALSE)
        /\ Get(calls[s].args.payload[1], "seasonFolder") = Bool(FALSE)
        /\ Posted(s)["monitored"] = Bool(FALSE)
        /\ Posted(s)["seasonFolder"] = Bool(FALSE)
        /\ Posted(s)["tmdbId"] = Num(1)

\* C7: the addOptions of every add body is the service's fixed search-on-add block,
\* whatever the caller's payload holds, an addOptions field of its own included.
C7_AddOptionsFixed ==
    \A s \in Adds :
        /\ "addOptions" \in DOMAIN Posted(s)
        /\ Posted(s)["addOptions"] = Obj(SearchKey(calls[s].name) :> Bool(TRUE))

C7_Witness ==
    \E s \in Adds :
        /\ calls[s].name = "addSeries"
        /\ Get(calls[s].args.payload[1], "addOptions")
             = Obj("searchForMissingEpisodes" :> Bool(FALSE))
        /\ Posted(s)["addOptions"] = Obj("searchForMissingEpisodes" :> Bool(TRUE))

Calendars == {s \in Active : calls[s].name = "getCalendar"}

\* how many pieces of seq equal piece
Count(seq, piece) == Cardinality({i \in 1..Len(seq) : seq[i] = piece})

\* the endpoint getCalendar is to ask for when start and end count as given or not
CalendarExpected(start, end, startGiven, endGiven) ==
    CASE ~startGiven /\ ~endGiven -> <<"/calendar">>
      [] startGiven /\ ~endGiven  -> <<"/calendar", "?", "start", "=">> \o FormEncode(start[1])
      [] ~startGiven /\ endGiven  -> <<"/calendar", "?", "end", "=">> \o FormEncode(end[1])
      [] startGiven /\ endGiven   -> <<"/calendar", "?", "start", "=">> \o FormEncode(start[1])
                                     \o <<"&", "end", "=">> \o FormEncode(end[1])

NonEmpty(str) == str # None /\ str[1] # <<>>

\* C8 as amended: getCalendar, in the base client and in both overrides, treats an
\* argument that is undefined or the empty string as not given; it asks for
\* /calendar alone when neither is given, with start only or end only when one is,
\* and with both, start first, when both are; the values are URL-encoded, so the
\* only raw "&" is the one between the two parameters and there is no raw space.
C8_CalendarQuery ==
    \A s \in Calendars :
        LET a == calls[s].args
            e == calls[s].endpoint
        IN  /\ e = CalendarExpected(a.start, a.end, NonEmpty(a.start), NonEmpty(a.end))
            /\ Count(e, " ") = 0
            /\ Count(e, "&") = IF NonEmpty(a.start) /\ NonEmpty(a.end) THEN 1 ELSE 0
            /\ calls[s].fetch[1].url =
                  client.config.url \o <<"/api/", client.apiVersion>> \o e

\* C8 as stated: an argument counts as given whenever it is not undefined.
C8_GivenMeansNotUndefined ==
    \A s \in Calendars :
        LET a == calls[s].args
        IN  calls[s].endpoint = CalendarExpected(a.start, a.end, a.start # None, a.end # None)

C8_Witness ==
    \E s \in Calendars :
        /\ input.class = "lidarr"
        /\ source = "arr-client.ts"
        /\ calls[s].args.start = Some(<<" ">>)
        /\ calls[s].args.end = Some(<<"&">>)
        /\ calls[s].endpoint = <<"/calendar", "?", "start", "=", "+", "&", "end", "=", "%26">>

EpisodeSearches == {s \in Active : calls[s].name = "searchEpisode"}

Succeeded(s) ==
    /\ calls[s].pc = "done"
    /\ calls[s].response # None
    /\ ~NonSuccess(calls[s].response[1])
    /\ Decodable(calls[s].response[1])

EpisodeSearchPosted(s) ==
    /\ calls[s].endpoint = <<"/command">>
    /\ calls[s].fetch[1].method = Some("POST")
    /\ calls[s].fetch[1].body # None
    /\ Posted(s) = ("name" :> Str("EpisodeSearch")) @@ ("episodeIds" :> Arr(calls[s].args.ids[1]))

\* C9 as amended: searchEpisode(ids) posts { name: 'EpisodeSearch', episodeIds: ids }
\* to /command and on success returns the decoded response body as it is: id and
\* every other field of the response are in the returned value.
C9_SearchEpisodeReturnsBody ==
    \A s \in EpisodeSearches :
        /\ EpisodeSearchPosted(s)
        /\ Succeeded(s) =>
             /\ calls[s].outcome[1].kind = "returned"
             /\ calls[s].outcome[1].value[1] = "object"
             /\ calls[s].outcome[1].value[2]["id"] = Num(7)
             /\ calls[s].response[1].body = Command =>
                  /\ DOMAIN calls[s].outcome[1].value[2] = {"id", "name", "status"}
                  /\ calls[s].outcome[1].value[2]["status"] = Str("queued")

\* C9 as stated: on success the returned value holds id and nothing else.
C9_ReturnsOnlyId ==
    \A s \in EpisodeSearches :
        /\ EpisodeSearchPosted(s)
        /\ Succeeded(s) =>
             /\ calls[s].outcome[1].kind = "returned"
             /\ DOMAIN calls[s].outcome[1].value[2] = {"id"}

C9_Witness ==
    \E s \in EpisodeSearches :
        /\ Succeeded(s)
        /\ calls[s].args.ids = Some(<<0>>)
        /\ calls[s].response[1].body = Command
        /\ "name" \in DOMAIN calls[s].outcome[1].value[2]

CommandMethods == {"searchMissing", "searchMovie", "searchMissingAlbums", "searchAlbum",
                   "searchMissingBooks", "searchBook"}

\* the command body each trigger is to post for its arguments
CommandExpected(name, args) ==
    CASE name = "searchMissing"       ->
           ("name" :> Str("SeriesSearch")) @@ ("seriesId" :> Num(args.id[1]))
      [] name = "searchMovie"         ->
           ("name" :> Str("MoviesSearch")) @@ ("movieIds" :> Arr(<<args.id[1]>>))
      [] name = "searchMissingAlbums" ->
           ("name" :> Str("ArtistSearch")) @@ ("artistId" :> Num(args.id[1]))
      [] name = "searchAlbum"         ->
           ("name" :> Str("AlbumSearch")) @@ ("albumIds" :> Arr(<<args.id[1]>>))
      [] name = "searchMissingBooks"  ->
           ("name" :> Str("AuthorSearch")) @@ ("authorId" :> Num(args.id[1]))
      [] name = "searchBook"          ->
           ("name" :> Str("BookSearch")) @@ ("bookIds" :> Arr(args.ids[1]))

\* C10: every command trigger posts once to /command a body naming the command and
\* carrying its identifier(s), never sends a second request, and on success hands
\* the caller the tracking id the service answered with.
C10_CommandReturnsTrackingId ==
    \A s \in Active :
        calls[s].name \in CommandMethods
        => /\ calls[s].endpoint = <<"/command">>
           /\ calls[s].fetch[1].method = Some("POST")
           /\ calls[s].fetch[1].body # None
           /\ Posted(s) = CommandExpected(calls[s].name, calls[s].args)
           /\ calls[s].sent = 1
           /\ Succeeded(s) =>
                /\ calls[s].outcome[1].kind = "returned"
                /\ calls[s].outcome[1].value # Undefined
                /\ calls[s].outcome[1].value[2]["id"] = Num(7)


\* C11: when fetch rejects, a public method other than testConnection fails with
\* that very rejection: same error, no service wrapping, no body read as text or as
\* JSON, no value.
C11_TransportFailureUnchanged ==
    \A s \in Done :
        (calls[s].name # "testConnection" /\ calls[s].rejection # None)
        => /\ calls[s].response = None
           /\ calls[s].outcome[1].kind = "threw"
           /\ calls[s].outcome[1].error = calls[s].rejection
           /\ ~Contains(calls[s].outcome[1].error[1].message, <<" API error: ">>)
           /\ calls[s].outcome[1].value = Undefined
           /\ ~calls[s].textRead
           /\ ~calls[s].jsonRead

C11_Witness ==
    \E s \in Done :
        /\ calls[s].name = "searchMissing"
        /\ calls[s].rejection = Some(AbortError)
        /\ calls[s].outcome[1] = Threw(AbortError)


\* the part of the request URL in front of the endpoint
UrlPrefix(s) ==
    SubSeq(calls[s].fetch[1].url, 1, Len(calls[s].fetch[1].url) - Len(calls[s].endpoint))

\* C12: the client object stays what the constructor made of its arguments, through
\* every call and interleaving of calls, failed ones included; any two requests
\* carry the same URL prefix and the same API key.
C12_ConfigImmutable ==
    /\ client = [serviceName |-> input.class,
                 config      |-> [url    |-> StripTrailingSlash(input.config.url),
                                  apiKey |-> input.config.apiKey],
                 apiVersion  |-> VersionOf(input.class)]
    /\ \A s \in Active, t \in Active :
          /\ UrlPrefix(s) = UrlPrefix(t)
          /\ calls[s].fetch[1].headers["X-Api-Key"] = calls[t].fetch[1].headers["X-Api-Key"]

C12_Witness ==
    /\ calls[1].pc = "done"
    /\ calls[1].outcome[1].kind = "threw"
    /\ calls[2].pc = "awaitFetch"
    /\ input.config.url = <<"http://host:8989", "/", "/">>
    /\ UrlPrefix(1) = <<"http://host:8989", "/", "/api/", client.apiVersion>>
    /\ UrlPrefix(2) = UrlPrefix(1)


EndsInSlash(url) == Len(url) > 0 /\ url[Len(url)] = "/"

\* C13: whatever URL the constructor was given, one or several trailing '/'
\* included, the base URL a request is built from does not end in '/', so the
\* request URL has exactly one '/' between the base URL and "api".
C13_NoTrailingSlashStored ==
    \A s \in Active :
        /\ ~EndsInSlash(client.config.url)
        /\ ~EndsInSlash(SubSeq(calls[s].fetch[1].url, 1, Len(client.config.url)))
        /\ calls[s].fetch[1].url[Len(client.config.url) + 1] = "/api/"


\* the document a decodable body stands for
Decoded(body) ==
    IF body = IdOnly THEN Obj("id" :> Num(7))
    ELSE Obj(("id" :> Num(7)) @@ ("name" :> Str("EpisodeSearch")) @@ ("status" :> Str("queued")))

\* what request() is to settle with, read off the slot's own rejection or response
OwnRequestOutcome(s) ==
    LET c == calls[s]
        r == c.response[1]
    IN  IF c.rejection # None THEN Threw(c.rejection[1])
        ELSE IF NonSuccess(r)
             THEN Threw([name    |-> "Error",
                         message |-> <<input.class, " API error: ">> \o NumStr(r.status)
                                     \o <<" ", r.statusText, " - ", r.body>>])
        ELSE IF Decodable(r) THEN Returned(Decoded(r.body))
        ELSE Threw([name |-> "SyntaxError", message |-> <<"Unexpected token in JSON">>])

\* what the public method is to settle with, read off the slot's own fields
OwnOutcome(s) ==
    LET o == OwnRequestOutcome(s)
    IN  IF calls[s].name = "testConnection" THEN Returned(Bool(o.kind = "returned"))
        ELSE IF calls[s].result = "void" /\ o.kind = "returned" THEN Returned(Undefined)
        ELSE o

\* C14: with several calls in flight on one client, in any interleaving, each
\* call's result is the one its own rejection or response determines; a call has
\* issued its request as soon as it has started, whatever state the other calls are
\* in, and a new call can start while others are unfinished.
C14_CallsIndependent ==
    /\ \A s \in Done :
          /\ (calls[s].rejection # None) # (calls[s].response # None)
          /\ calls[s].outcome[1] = OwnOutcome(s)
    /\ \A s \in Active : calls[s].sent = 1 /\ calls[s].fetch # None
    /\ Cardinality(Active) < Cardinality(Slots) => ENABLED Invoke

C14_Witness ==
    /\ calls[1].pc = "awaitFetch"
    /\ calls[2].pc = "done"
    /\ calls[2].name = "getStatus"
    /\ calls[2].response # None
    /\ calls[2].response[1].body = Command
    /\ calls[2].outcome[1] = Returned(Decoded(Command))


\* C15: getAlbums and getBooks called with a parent id, 0 included, and getEpisodes
\* always, ask for the list scoped by that id in the query string; getEpisodes
\* adds seasonNumber= whenever a season is given, season 0 included.
C15_ScopedByParentId ==
    \A s \in Active :
        LET a == calls[s].args
            e == calls[s].endpoint
        IN  /\ (calls[s].name = "getAlbums" /\ a.id # None)
                 => e = <<"/album?artistId=">> \o NumStr(a.id[1])
            /\ (calls[s].name = "getBooks" /\ a.id # None)
                 => e = <<"/book?authorId=">> \o NumStr(a.id[1])
            /\ calls[s].name = "getEpisodes"
                 => e = <<"/episode?seriesId=">> \o NumStr(a.id[1])
                        \o (IF a.seasonNumber # None
                            THEN <<"&seasonNumber=">> \o NumStr(a.seasonNumber[1])
                            ELSE <<>>)

BodylessPosts == {"testAllIndexers", "testIndexer"}

JsonPosts == AddMethods \cup CommandMethods \cup {"searchEpisode"}

IsJsonDocument(body) == body # None /\ body[1].text = "json"

\* C16 as amended: a POST carries a JSON document as its body, except the two
\* Prowlarr indexer tests, which are POSTs without a body; every other method
\* (reads, lookups, searches) sets no method and no body.
C16_PostBodies ==
    \A s \in Active :
        LET f == calls[s].fetch[1]
        IN  /\ calls[s].name \in JsonPosts
                 => (f.method = Some("POST") /\ IsJsonDocument(f.body))
            /\ calls[s].name \in BodylessPosts
                 => (f.method = Some("POST") /\ f.body = None)
            /\ calls[s].name \notin (JsonPosts \cup BodylessPosts)
                 => (f.method = None /\ f.body = None)

\* C16 as stated: every POST carries a JSON document, every other request has no
\* method and no body.
C16_EveryPostHasJsonBody ==
    \A s \in Active :
        LET f == calls[s].fetch[1]
        IN  IF f.method = Some("POST") THEN IsJsonDocument(f.body)
            ELSE f.method = None /\ f.body = None

C16_Witness ==
    \E s \in Active :
        /\ calls[s].name = "addAuthor"
        /\ calls[s].fetch[1].method = Some("POST")
        /\ IsJsonDocument(calls[s].fetch[1].body)
        /\ Posted(s)["foreignAuthorId"] = Num(1)

\* C17: in one call of request() the status is looked at only once fetch has
\* resolved; on a non-success status the body is read as text, never decoded as
\* JSON, and the error is raised only after the text is there; on a success status
\* the body is decoded as JSON, never read as text, and the decoded value is what
\* the method gets, as it is.
C17_StepsOrderedAndExclusive ==
    \A s \in Slots :
        LET c == calls[s]
        IN  /\ c.pc \in {"idle", "awaitFetch"}
                 => (c.response = None /\ ~c.textRead /\ ~c.jsonRead /\ c.outcome = None)
            /\ (c.textRead \/ c.jsonRead) => c.response # None
            /\ ~(c.textRead /\ c.jsonRead)
            /\ c.response # None =>
                 /\ c.textRead = NonSuccess(c.response[1])
                 /\ c.jsonRead = ~NonSuccess(c.response[1])
                 /\ c.pc = (IF c.outcome # None THEN "done"
                            ELSE IF NonSuccess(c.response[1]) THEN "awaitText"
                            ELSE "awaitJson")
            /\ (c.pc = "done" /\ c.response # None /\ c.result = "response")
                 => c.outcome[1] =
                      (IF NonSuccess(c.response[1]) \/ ~Decodable(c.response[1])
                       THEN OwnRequestOutcome(s)
                       ELSE Returned(Decoded(c.response[1].body)))

C17_Witness ==
    \E s \in Done :
        /\ calls[s].name = "getSeries"
        /\ calls[s].response # None
        /\ calls[s].response[1].status = 200
        /\ calls[s].jsonRead
        /\ ~calls[s].textRead
        /\ calls[s].outcome[1] = Returned(Decoded(Command))

====
